---- MODULE Spec2Model ----
(***************************************************************************)
(* A model of ipkg/go-chord: the gRPC transport with its connection pool   *)
(* (GRPCTransport), and the ring operations Create, Join, Leave and        *)
(* LookupHash of chord.go.                                                 *)
(***************************************************************************)
EXTENDS Integers, Sequences, FiniteSets, TLC

(***************************************************************************)
(* Bounds of the transport model.                                          *)
(***************************************************************************)
MaxCalls == 2
MaxConns == 2
RpcTimeout == 1
ConnMaxIdle == 1

Targets == {"A", "B"}
\* The host whose calls the history variables maxOut and maxCallers count.
Observed == "A"
Calls == 1..MaxCalls
Conns == 1..MaxConns
NoConn == 0

VARIABLES
  shutdown,     \* cs.shutdown: 0 or 1
  sdpc,         \* position of the goroutine running GRPCTransport.Shutdown
  pool,         \* cs.pool: host -> sequence of pooled connections
  connState,    \* per connection: "undialed", "open" or "closed"
  connHost,     \* rpcOutConn.host
  used,         \* time elapsed since rpcOutConn.used, for pooled connections
  closes,       \* how many times conn.Close() was called on the connection
  pc,           \* position of the caller of an outbound call
  gpc,          \* position of the goroutine the call spawned
  callHost,     \* the host the call targets
  out,          \* the connection getConn handed to the call
  elapsed,      \* time elapsed since the call's select started its timer
  reply,        \* what the remote handler returned: "none", "ok" or "err"
  late,         \* the remote handler returned after more than the timeout
  result,       \* what the caller received
  maxOut,       \* most underlying calls to Observed in flight at the same time
  maxCallers,   \* most callers inside an outbound call to Observed at once
  reaper,       \* position of the reapOld goroutine
  ring,         \* per process: the life cycle of its Ring
  prog,         \* per process: vnodes handled so far by Join's or Leave's loop
  tup,          \* per process: its transport is serving
  local,        \* per process: the vnodes registered with its transport
  delegate,     \* per process: the delegate dispatcher
  Delegate,     \* per process: Config.Delegate is set
  dq,           \* per process: ring.delegateCh, the events waiting
  drun,         \* per process: the delegate callbacks that are executing
  successors,   \* per vnode: localVnode.successors
  predecessor,  \* per vnode: localVnode.predecessor
  finger,       \* per vnode: localVnode.finger
  lastFinger,   \* per vnode: localVnode.lastFinger
  timer,        \* per vnode: localVnode.timer is set
  spc,          \* per vnode: the step its stabilization round is at
  leaveErr,     \* per process: the error Leave has accumulated
  lfail,        \* per process: the vnodes whose leave returned an error
  faults,       \* remote calls that have timed out although the peer is up
  served        \* the last request a server took from a client, and its number

poolVars ==
  <<shutdown, sdpc, pool, connState, connHost, used, closes, pc, gpc,
    callHost, out, elapsed, reply, late, result, maxOut, maxCallers, reaper>>

evVars == <<Delegate, dq, drun>>

ringVars ==
  <<ring, prog, tup, local, delegate, successors, predecessor, finger,
    lastFinger, timer, spc, leaveErr, lfail, faults, evVars, served>>

vars == <<poolVars, ringVars>>

Max(a, b) == IF a >= b THEN a ELSE b
Min(a, b) == IF a <= b THEN a ELSE b

RECURSIVE SeqToSet(_)
SeqToSet(s) == IF s = <<>> THEN {} ELSE {Head(s)} \cup SeqToSet(Tail(s))


(***************************************************************************)
(* Bounds of the ring model.                                               *)
(***************************************************************************)
HashBits == 2
NumVnodesA == 2
NumVnodesB == 1
NumSuccessors == 2
MaxFaults == 1
\* Events that fit in ring.delegateCh.
MaxQueue == 2

RingSize == 2 ^ HashBits
Keys == 0..(RingSize - 1)
Procs == {"A", "B"}
Nil == -1
\* The zero-valued Vnode that GetPredecessorServe answers for no predecessor.
Zero == -2

\* Config.NumVnodes of each process: A creates the ring, B joins it.
NumVnodes(P) == IF P = "A" THEN NumVnodesA ELSE NumVnodesB

\* The id of the i-th vnode of a process (ring.vnodes[i-1].Id).
VnodeId(P, i) ==
  ((IF P = "A" THEN 0 ELSE (RingSize \div NumVnodesA) \div 2)
     + (i - 1) * (RingSize \div NumVnodes(P))) % RingSize

\* ring.vnodes of each process, and Vnode.Host of each vnode.
VnodeSets == [P \in Procs |-> {VnodeId(P, i) : i \in 1..NumVnodes(P)}]
VnodesOf(P) == VnodeSets[P]
Vnodes == UNION {VnodeSets[P] : P \in Procs}
Hosts == [v \in Vnodes |-> CHOOSE P \in Procs : v \in VnodeSets[P]]
HostOf(v) == Hosts[v]

\* The requests the servers take from clients outside the ring.
MaxRequests == 3

\* No server has taken a request yet.
NoRequest ==
  [n |-> 0, op |-> "none", on |-> "none", target |-> Nil,
   notFound |-> FALSE, obj |-> Nil, called |-> "none"]

\* No ring exists yet; both transports are listening. D says which processes
\* are configured with a delegate.
InitRingWith(D) ==
  /\ Delegate = D
  /\ dq = [P \in Procs |-> <<>>]
  /\ drun = [P \in Procs |-> {}]
  /\ ring = [P \in Procs |-> "none"]
  /\ prog = [P \in Procs |-> 0]
  /\ tup = [P \in Procs |-> TRUE]
  /\ local = [P \in Procs |-> {}]
  /\ delegate = [P \in Procs |-> "off"]
  /\ successors = [v \in Vnodes |-> [i \in 1..NumSuccessors |-> Nil]]
  /\ predecessor = [v \in Vnodes |-> Nil]
  /\ finger = [v \in Vnodes |-> [i \in 1..HashBits |-> Nil]]
  /\ lastFinger = [v \in Vnodes |-> 0]
  /\ timer = [v \in Vnodes |-> FALSE]
  /\ spc = [v \in Vnodes |-> 0]
  /\ leaveErr = [P \in Procs |-> <<>>]
  /\ lfail = [P \in Procs |-> {}]
  /\ faults = 0
  /\ served = NoRequest

\* The processes run without a delegate.
InitRing == InitRingWith([P \in Procs |-> FALSE])


(***************************************************************************)
(* The ring: identifier arithmetic and list helpers.                       *)
(***************************************************************************)
Other(P) == IF P = "A" THEN "B" ELSE "A"

\* Clockwise distance from a to b on the ring.
dist(a, b) == (b - a + RingSize) % RingSize

\* x lies strictly clockwise of a and strictly counter-clockwise of b.
between(a, x, b) ==
  IF a = b THEN x # a ELSE dist(a, x) > 0 /\ dist(a, x) < dist(a, b)

\* x lies in the half-open ring interval (a, b].
betweenRightIncl(a, x, b) ==
  IF a = b THEN TRUE ELSE dist(a, x) > 0 /\ dist(a, x) <= dist(a, b)

\* The entries of a list that are set, in order.
Known(s) ==
  LET set == {i \in 1..Len(s) : s[i] # Nil}
  IN [k \in 1..Cardinality(set) |->
        s[CHOOSE i \in set : Cardinality({j \in set : j <= i}) = k]]

\* trimSlice: the list without its trailing absent entries.
trimSlice(s) ==
  SubSeq(s, 1, CHOOSE n \in 0..Len(s) :
                 /\ n > 0 => s[n] # Nil
                 /\ \A i \in (n + 1)..Len(s) : s[i] = Nil)

\* A merge that keeps the duplicates.
DedupeNone(s) == Known(s)

\* The list without its later duplicates.
Dedupe(s) ==
  Known([i \in 1..Len(s) |->
           IF \E j \in 1..(i - 1) : s[j] = s[i] THEN Nil ELSE s[i]])

Take(s, n) == SubSeq(s, 1, Min(n, Len(s)))

\* A successor list as the vnode stores it: NumSuccessors slots.
Pad(s) == [i \in 1..NumSuccessors |-> IF i <= Len(s) THEN s[i] ELSE Nil]

Remove(s, x) == Known([i \in 1..Len(s) |-> IF s[i] = x THEN Nil ELSE s[i]])

\* A get that finds every vnode in every registry.
getAnywhere(P, v) == TRUE

\* GRPCTransport.get: the vnode is in the registry of process P.
get(P, v) == v \in local[P]

\* An RPC from process P to vnode v gets through: a local vnode is reached
\* through the registry; a remote one needs both transports serving, the
\* vnode registered there, and no timeout (f).
CallOk(P, v, f) ==
  IF HostOf(v) = P
    THEN get(P, v)
    ELSE tup[P] /\ tup[HostOf(v)] /\ get(HostOf(v), v) /\ ~f

\* A PingServe that answers the empty Bool also for a registered vnode.
PingServeEmpty(P, v) == [ok |-> FALSE, err |-> ~get(P, v)]

\* PingServe on process P for vnode v: (Ok, error).
PingServe(P, v) == [ok |-> get(P, v), err |-> ~get(P, v)]

\* Transport.Ping of vnode v by process P: the call gets through and the
\* target answers Ok.
Ping(P, v, f) == CallOk(P, v, f) /\ PingServe(HostOf(v), v).ok

\* GetPredecessorServe: a vnode without predecessor answers the zero Vnode.
GetPredecessorServe(v) == IF predecessor[v] = Nil THEN Zero ELSE predecessor[v]

\* The next hop of FindSuccessors: the widest finger strictly between the
\* vnode and the key, else successors[0].
NextHop(v, key) ==
  LET cands == {i \in 1..HashBits :
                  finger[v][i] # Nil /\ between(v, finger[v][i], key)}
  IN IF cands = {} THEN successors[v][1]
     ELSE finger[v][CHOOSE i \in cands : \A j \in cands : j <= i]

FSError == [err |-> TRUE, list |-> <<>>]

\* localVnode.FindSuccessors(n, key) on vnode v, with hops forwards left.
RECURSIVE FindSuccessors(_, _, _, _)
FindSuccessors(v, n, key, hops) ==
  IF successors[v][1] = Nil THEN FSError
  ELSE IF betweenRightIncl(v, key, successors[v][1])
    THEN [err |-> FALSE,
          list |-> [i \in 1..n |->
                      IF i <= NumSuccessors THEN successors[v][i] ELSE Nil]]
    ELSE CHOOSE res \in
           {IF hops = 0 \/ ~CallOk(HostOf(v), nxt, FALSE) THEN FSError
            ELSE CHOOSE fwd \in
                   {IF r.err THEN FSError
                    ELSE [err |-> FALSE,
                          list |-> IF HostOf(nxt) = HostOf(v) THEN r.list
                                   ELSE trimSlice(r.list)] :
                    r \in {FindSuccessors(nxt, n, key, hops - 1)}} : TRUE :
            nxt \in {NextHop(v, key)}} : TRUE

MaxHops == Cardinality(Vnodes)

\* The vnode of the set hosts nearest to key: least clockwise distance to it.
nearestVnodeToKey(hosts, key) ==
  CHOOSE h \in hosts : \A g \in hosts : dist(h, key) <= dist(g, key)

\* NewGRPCTransport
InitPool ==
  /\ shutdown = 0
  /\ sdpc = "idle"
  /\ pool = [h \in Targets |-> <<>>]
  /\ connState = [c \in Conns |-> "undialed"]
  /\ connHost = [c \in Conns |-> "A"]
  /\ used = [c \in Conns |-> 0]
  /\ closes = [c \in Conns |-> 0]
  /\ pc = [c \in Calls |-> "idle"]
  /\ gpc = [c \in Calls |-> "none"]
  /\ callHost = [c \in Calls |-> "A"]
  /\ out = [c \in Calls |-> NoConn]
  /\ elapsed = [c \in Calls |-> 0]
  /\ reply = [c \in Calls |-> "none"]
  /\ late = [c \in Calls |-> FALSE]
  /\ result = [c \in Calls |-> "none"]
  /\ maxOut = 0
  /\ maxCallers = 0
  /\ reaper = "check"

\* A caller is inside the outbound call until the call returns to it.
CallerIn(c) == pc[c] \in {"getConn", "dial", "select"}

\* The underlying call is in flight until its connection has been given back.
InFlight(c) == CallerIn(c) \/ gpc[c] \in {"rpc", "returnConn"}

callVars == <<pc, gpc, callHost, out, elapsed, reply, late, result>>
connVars == <<pool, connState, connHost, used, closes>>
stopVars == <<shutdown, sdpc, reaper>>
histVars == <<maxOut, maxCallers>>

\* getConn, under poolLock: the last pooled connection and the rest of the list.
getConnPop(list) ==
  [out |-> list[Len(list)], rest |-> SubSeq(list, 1, Len(list) - 1)]

\* A returnConn that forgets the connection instead of pushing it back.
returnConnDrop(list, o) == list

\* returnConn, under poolLock: push the connection back.
returnConnPush(list, o) == Append(list, o)

\* The caller enters one of the seven outbound operations (ListVnodes, Ping,
\* GetPredecessor, Notify, FindSuccessors, ClearPredecessor, SkipSuccessor):
\* they share one body, which differs only in the request sent.
StartCall(c, h) ==
  /\ pc[c] = "idle"
  /\ \A d \in Calls : d < c => pc[d] # "idle"
  /\ pc' = [pc EXCEPT ![c] = "getConn"]
  /\ callHost' = [callHost EXCEPT ![c] = h]
  /\ maxCallers' =
       IF h = Observed
         THEN Max(maxCallers,
                  1 + Cardinality({d \in Calls : CallerIn(d) /\ callHost[d] = h}))
         ELSE maxCallers
  /\ maxOut' =
       IF h = Observed
         THEN Max(maxOut,
                  1 + Cardinality({d \in Calls : InFlight(d) /\ callHost[d] = h}))
         ELSE maxOut
  /\ UNCHANGED <<connVars, stopVars, gpc, out, elapsed, reply, late, result>>

\* go func() { ... }() and the select that follows it.
Spawn(c, o) ==
  /\ pc' = [pc EXCEPT ![c] = "select"]
  /\ gpc' = [gpc EXCEPT ![c] = "rpc"]
  /\ out' = [out EXCEPT ![c] = o]
  /\ elapsed' = [elapsed EXCEPT ![c] = 0]

\* A getConn that never looks in the pool and always dials.
GetConnNoReuse(c) ==
  /\ pc[c] = "getConn"
  /\ IF shutdown = 1
       THEN /\ pc' = [pc EXCEPT ![c] = "returned"]
            /\ result' = [result EXCEPT ![c] = "errShutdown"]
       ELSE /\ pc' = [pc EXCEPT ![c] = "dial"]
            /\ UNCHANGED result
  /\ UNCHANGED <<stopVars, histVars, connVars, gpc, out, elapsed, callHost, reply,
                 late>>

\* getConn's critical section: the shutdown check and the pop.
GetConnLocked(c) ==
  /\ pc[c] = "getConn"
  /\ IF shutdown = 1
       THEN /\ pc' = [pc EXCEPT ![c] = "returned"]
            /\ result' = [result EXCEPT ![c] = "errShutdown"]
            /\ UNCHANGED <<pool, gpc, out, elapsed, used>>
       ELSE IF Len(pool[callHost[c]]) > 0
         THEN /\ pool' = [pool EXCEPT ![callHost[c]] = getConnPop(@).rest]
              /\ Spawn(c, getConnPop(pool[callHost[c]]).out)
              /\ used' = [used EXCEPT ![getConnPop(pool[callHost[c]]).out] = 0]
              /\ UNCHANGED result
         ELSE /\ pc' = [pc EXCEPT ![c] = "dial"]
              /\ UNCHANGED <<pool, gpc, out, elapsed, result, used>>
  /\ UNCHANGED <<stopVars, histVars, connState, connHost, closes, callHost, reply,
                 late>>

\* getConn found nothing pooled: grpc.Dial succeeds and makes a new rpcOutConn.
Dial(c) ==
  /\ pc[c] = "dial"
  /\ \E o \in Conns :
       /\ connState[o] = "undialed"
       /\ \A p \in Conns : connState[p] = "undialed" => o <= p
       /\ connState' = [connState EXCEPT ![o] = "open"]
       /\ connHost' = [connHost EXCEPT ![o] = callHost[c]]
       /\ Spawn(c, o)
  /\ UNCHANGED <<stopVars, histVars, pool, used, closes, callHost, reply, late,
                 result>>

\* grpc.Dial fails: getConn returns the error and the call returns it.
DialFail(c) ==
  /\ pc[c] = "dial"
  /\ pc' = [pc EXCEPT ![c] = "returned"]
  /\ result' = [result EXCEPT ![c] = "errDial"]
  /\ UNCHANGED <<stopVars, histVars, connVars, gpc, callHost, out, elapsed, reply,
                 late>>

\* out.client.XxxServe(...) returns in the goroutine, with a response or an
\* error; late records that it took longer than the timeout.
RpcComplete(c, r) ==
  /\ gpc[c] = "rpc"
  /\ gpc' = [gpc EXCEPT ![c] = "returnConn"]
  /\ reply' = [reply EXCEPT ![c] = r]
  /\ late' = [late EXCEPT ![c] = elapsed[c] > RpcTimeout]
  /\ elapsed' = [elapsed EXCEPT ![c] = IF pc[c] = "select" THEN @ ELSE 0]
  /\ UNCHANGED <<stopVars, histVars, connVars, pc, callHost, out, result>>

\* A returnConn that pools the connection without looking at cs.shutdown.
ReturnConnKeep(c) ==
  /\ gpc[c] = "returnConn"
  /\ gpc' = [gpc EXCEPT ![c] = "send"]
  /\ used' = [used EXCEPT ![out[c]] = 0]
  /\ pool' = [pool EXCEPT ![connHost[out[c]]] = returnConnPush(@, out[c])]
  /\ out' = [out EXCEPT ![c] = NoConn]
  /\ UNCHANGED <<stopVars, histVars, connState, closes, connHost, pc, callHost,
                 elapsed, reply, late, result>>

\* cs.returnConn(out) in the goroutine.
ReturnConn(c) ==
  /\ gpc[c] = "returnConn"
  /\ gpc' = [gpc EXCEPT ![c] = "send"]
  /\ used' = [used EXCEPT ![out[c]] = 0]
  /\ IF shutdown = 1
       THEN /\ connState' = [connState EXCEPT ![out[c]] = "closed"]
            /\ closes' = [closes EXCEPT ![out[c]] = @ + 1]
            /\ UNCHANGED pool
       ELSE /\ pool' = [pool EXCEPT ![connHost[out[c]]] = returnConnPush(@, out[c])]
            /\ UNCHANGED <<connState, closes>>
  /\ out' = [out EXCEPT ![c] = NoConn]
  /\ UNCHANGED <<stopVars, histVars, connHost, pc, callHost, elapsed, reply, late,
                 result>>

\* What the select hands the caller when the goroutine's send reaches it.
selectRecv(c) == reply[c]

\* A send whose value reaches the caller even after the select has returned.
SendLate(c) ==
  /\ gpc[c] = "send"
  /\ gpc' = [gpc EXCEPT ![c] = "exit"]
  /\ pc' = [pc EXCEPT ![c] = "returned"]
  /\ result' = [result EXCEPT ![c] = selectRecv(c)]
  /\ elapsed' = [elapsed EXCEPT ![c] = 0]
  /\ UNCHANGED <<stopVars, histVars, connVars, callHost, out, reply, late>>

\* respChan <- ... / errChan <- err: the channels are buffered, so the send
\* never blocks; a caller still blocked in the select receives the value.
Send(c) ==
  /\ gpc[c] = "send"
  /\ gpc' = [gpc EXCEPT ![c] = "exit"]
  /\ IF pc[c] = "select"
       THEN /\ pc' = [pc EXCEPT ![c] = "returned"]
            /\ result' = [result EXCEPT ![c] = selectRecv(c)]
            /\ elapsed' = [elapsed EXCEPT ![c] = 0]
       ELSE UNCHANGED <<pc, result, elapsed>>
  /\ UNCHANGED <<stopVars, histVars, connVars, callHost, out, reply, late>>

\* case <-time.After(cs.timeout): the caller is still blocked in the select.
TimerFire(c) ==
  /\ pc[c] = "select"
  /\ elapsed[c] >= RpcTimeout
  /\ pc' = [pc EXCEPT ![c] = "returned"]
  /\ result' = [result EXCEPT ![c] = "errTimedOut"]
  /\ elapsed' = [elapsed EXCEPT ![c] = IF gpc[c] = "rpc" THEN @ ELSE 0]
  /\ UNCHANGED <<stopVars, histVars, connVars, gpc, callHost, out, reply, late>>

\* The caller has its result and the goroutine, if any, has exited.
Recycle(c) ==
  /\ pc[c] = "returned"
  /\ gpc[c] \in {"none", "exit"}
  /\ pc' = [pc EXCEPT ![c] = "idle"]
  /\ gpc' = [gpc EXCEPT ![c] = "none"]
  /\ callHost' = [callHost EXCEPT ![c] = "A"]
  /\ out' = [out EXCEPT ![c] = NoConn]
  /\ elapsed' = [elapsed EXCEPT ![c] = 0]
  /\ reply' = [reply EXCEPT ![c] = "none"]
  /\ late' = [late EXCEPT ![c] = FALSE]
  /\ result' = [result EXCEPT ![c] = "none"]
  /\ UNCHANGED <<stopVars, histVars, connVars>>

Pooled(o) == \E h \in Targets : o \in SeqToSet(pool[h])

Timed(c) == pc[c] = "select" \/ gpc[c] = "rpc"

\* Time passes. A timer that is due fires before more time passes.
Tick ==
  /\ \A c \in Calls : pc[c] = "select" => elapsed[c] < RpcTimeout
  /\ \/ \E c \in Calls : Timed(c) /\ elapsed[c] <= RpcTimeout
     \/ \E o \in Conns : Pooled(o) /\ used[o] <= ConnMaxIdle
  /\ elapsed' =
       [c \in Calls |-> IF Timed(c) THEN Min(elapsed[c] + 1, RpcTimeout + 1)
                        ELSE elapsed[c]]
  /\ used' =
       [o \in Conns |-> IF Pooled(o) THEN Min(used[o] + 1, ConnMaxIdle + 1)
                        ELSE used[o]]
  /\ UNCHANGED <<stopVars, histVars, pool, connState, connHost, closes, pc, gpc,
                 callHost, out, reply, late, result>>

\* How many times o occurs in the sequence s.
Occurrences(s, o) == Cardinality({i \in 1..Len(s) : s[i] = o})

\* A reapOnce loop that leaves out the i-- after it removed a connection.
RECURSIVE reapScanSkip(_, _, _, _)
reapScanSkip(conns, i, max, closed) ==
  IF i >= max
    THEN [keep |-> SubSeq(conns, 1, max), closed |-> closed]
    ELSE IF used[conns[i + 1]] > ConnMaxIdle
      THEN reapScanSkip([conns EXCEPT ![i + 1] = conns[max], ![max] = NoConn],
                        i + 1, max - 1, Append(closed, conns[i + 1]))
      ELSE reapScanSkip(conns, i + 1, max, closed)

\* reapOnce's loop over one host's list: i and max are the loop's variables,
\* closed collects the connections it closed.
RECURSIVE reapScan(_, _, _, _)
reapScan(conns, i, max, closed) ==
  IF i >= max
    THEN [keep |-> SubSeq(conns, 1, max), closed |-> closed]
    ELSE IF used[conns[i + 1]] > ConnMaxIdle
      THEN reapScan([conns EXCEPT ![i + 1] = conns[max], ![max] = NoConn],
                    i, max - 1, Append(closed, conns[i + 1]))
      ELSE reapScan(conns, i + 1, max, closed)

reapHost(h) == reapScan(pool[h], 0, Len(pool[h]), <<>>)

\* reapOld: the shutdown check at the top of the loop.
ReapCheck ==
  /\ reaper = "check"
  /\ reaper' = IF shutdown = 1 THEN "exited" ELSE "sleep"
  /\ UNCHANGED <<shutdown, sdpc, connVars, callVars, histVars>>

\* reapOld wakes up and runs reapOnce over every host of the pool.
ReapOnce ==
  /\ reaper = "sleep"
  /\ reaper' = "check"
  /\ pool' = [h \in Targets |-> reapHost(h).keep]
  /\ connState' =
       [o \in Conns |-> IF \E h \in Targets : Occurrences(reapHost(h).closed, o) > 0
                        THEN "closed" ELSE connState[o]]
  /\ closes' =
       [o \in Conns |-> closes[o] + Occurrences(reapHost(connHost[o]).closed, o)]
  /\ UNCHANGED <<shutdown, sdpc, connHost, used, callVars, histVars>>

\* GRPCTransport.Shutdown: atomic.StoreInt32(&cs.shutdown, 1).
ShutdownFlag ==
  /\ sdpc = "idle"
  /\ sdpc' = "flagged"
  /\ shutdown' = 1
  /\ UNCHANGED <<reaper, connVars, callVars, histVars>>

\* GRPCTransport.Shutdown: close every pooled connection and drop the pool.
ShutdownClose ==
  /\ sdpc = "flagged"
  /\ sdpc' = "done"
  /\ connState' = [o \in Conns |-> IF Pooled(o) THEN "closed" ELSE connState[o]]
  /\ closes' = [o \in Conns |-> closes[o] + Occurrences(pool[connHost[o]], o)]
  /\ pool' = [h \in Targets |-> <<>>]
  /\ UNCHANGED <<shutdown, reaper, connHost, used, callVars, histVars>>

\* Both parts of the program start together.
Init == InitPool /\ InitRing

PoolStep ==
  \/ \E c \in Calls, h \in Targets : StartCall(c, h) /\ UNCHANGED ringVars
  \/ \E c \in Calls : GetConnLocked(c) /\ UNCHANGED ringVars
  \/ \E c \in Calls : Dial(c) /\ UNCHANGED ringVars
  \/ \E c \in Calls : DialFail(c) /\ UNCHANGED ringVars
  \/ \E c \in Calls, r \in {"ok", "err"} : RpcComplete(c, r) /\ UNCHANGED ringVars
  \/ \E c \in Calls : ReturnConn(c) /\ UNCHANGED ringVars
  \/ \E c \in Calls : Send(c) /\ UNCHANGED ringVars
  \/ \E c \in Calls : TimerFire(c) /\ UNCHANGED ringVars
  \/ \E c \in Calls : Recycle(c) /\ UNCHANGED ringVars
  \/ Tick /\ UNCHANGED ringVars
  \/ ReapCheck /\ UNCHANGED ringVars
  \/ ReapOnce /\ UNCHANGED ringVars
  \/ ShutdownFlag /\ UNCHANGED ringVars
  \/ ShutdownClose /\ UNCHANGED ringVars

NextPool == PoolStep

SpecPool == Init /\ [][NextPool]_vars

(***************************************************************************)
(* The ring: Create, Join, the stabilization round, Leave and Shutdown.    *)
(***************************************************************************)
procVars == <<ring, prog, tup, local, delegate, leaveErr, lfail>>

\* The events handed to the delegate.
NewPredecessorEvent(v, new, old) ==
  [kind |-> "NewPredecessor", local |-> v, a |-> new, b |-> old]

PredecessorLeavingEvent(v, remote) ==
  [kind |-> "PredecessorLeaving", local |-> v, a |-> remote, b |-> Nil]

LeavingEvent(v, pred, succ) ==
  [kind |-> "Leaving", local |-> v, a |-> pred, b |-> succ]

\* The events of P go to a delegate: P has one and its dispatcher has not
\* been stopped.
Listening(P) == Delegate[P] /\ delegate[P] # "stopped"

\* invokeDelegate: the events join the queue of P's dispatcher, when they go
\* to a delegate; the submitter waits while ring.delegateCh has no room.
invokeDelegate(P, events) ==
  IF Listening(P) /\ events # <<>>
    THEN /\ Len(dq[P]) + Len(events) <= MaxQueue
         /\ dq' = [dq EXCEPT ![P] = @ \o events]
    ELSE UNCHANGED dq

\* The dispatcher of P has nothing left to deliver.
Drained(P) == dq[P] = <<>> /\ drun[P] = {}

\* The dispatcher is started when the process has a delegate.
Started(P) == [delegate EXCEPT ![P] = IF Delegate[P] THEN "running" ELSE @]

\* setLocalSuccessors: every vnode is its own successor.
setLocalSuccessors(v) == Pad(<<v>>)

\* A Create that leaves setLocalSuccessors out.
CreateUnseeded(P) ==
  /\ ring[P] = "none"
  /\ ring' = [ring EXCEPT ![P] = "up"]
  /\ local' = [local EXCEPT ![P] = @ \cup VnodesOf(P)]
  /\ timer' = [v \in Vnodes |-> IF v \in VnodesOf(P) THEN TRUE ELSE timer[v]]
  /\ delegate' = Started(P)
  /\ UNCHANGED <<prog, tup, successors, predecessor, finger, lastFinger, spc,
                 leaveErr, lfail, evVars>>

\* Create: init registers the vnodes, setLocalSuccessors seeds them, schedule
\* starts the dispatcher and every vnode's timer.
Create(P) ==
  /\ ring[P] = "none"
  /\ ring' = [ring EXCEPT ![P] = "up"]
  /\ local' = [local EXCEPT ![P] = @ \cup VnodesOf(P)]
  /\ successors' =
       [v \in Vnodes |-> IF v \in VnodesOf(P) THEN setLocalSuccessors(v)
                         ELSE successors[v]]
  /\ timer' = [v \in Vnodes |-> IF v \in VnodesOf(P) THEN TRUE ELSE timer[v]]
  /\ delegate' = Started(P)
  /\ UNCHANGED <<prog, tup, predecessor, finger, lastFinger, spc, leaveErr, lfail,
                 evVars>>

\* Join, up to ring.init: ListVnodes on the existing host, then init, which
\* registers the new vnodes with the transport.
JoinList(P, f) ==
  /\ ring[P] = "none"
  /\ IF tup[P] /\ tup[Other(P)] /\ ~f /\ local[Other(P)] # {}
       THEN /\ ring' = [ring EXCEPT ![P] = "seeding"]
            /\ local' = [local EXCEPT ![P] = @ \cup VnodesOf(P)]
       ELSE /\ ring' = [ring EXCEPT ![P] = "failed"]
            /\ UNCHANGED local
  /\ UNCHANGED <<prog, tup, delegate, successors, predecessor, finger, lastFinger,
                 timer, spc, leaveErr, lfail, evVars>>

\* What Join's FindSuccessors call on the nearest remote vnode returns.
SeedReply(P, vn, f) ==
  LET nearest == nearestVnodeToKey(local[Other(P)], vn)
  IN IF ~CallOk(P, nearest, f) THEN FSError
     ELSE LET r == FindSuccessors(nearest, NumSuccessors, vn, MaxHops)
          IN IF r.err THEN FSError ELSE [err |-> FALSE, list |-> trimSlice(r.list)]

\* Join's loop body for the next vnode: seed its successors or fail; after
\* the last vnode the dispatcher is started and the fast stabilization begins.
JoinSeed(P, f) ==
  /\ ring[P] = "seeding"
  /\ LET vn == VnodeId(P, prog[P] + 1)
         r == SeedReply(P, vn, f)
     IN IF r.err \/ Len(r.list) = 0
          THEN /\ ring' = [ring EXCEPT ![P] = "failed"]
               /\ UNCHANGED <<prog, successors, delegate>>
          ELSE /\ successors' =
                    [successors EXCEPT
                       ![vn] = [i \in 1..NumSuccessors |->
                                  IF i <= Len(r.list) THEN r.list[i] ELSE @[i]]]
               /\ IF prog[P] + 1 = NumVnodes(P)
                    THEN /\ ring' = [ring EXCEPT ![P] = "joinpass"]
                         /\ prog' = [prog EXCEPT ![P] = 0]
                         /\ delegate' = Started(P)
                    ELSE /\ prog' = [prog EXCEPT ![P] = @ + 1]
                         /\ UNCHANGED <<ring, delegate>>
  /\ UNCHANGED <<tup, local, predecessor, finger, lastFinger, timer, spc, leaveErr,
                 lfail, evVars>>

\* A stabilization round of v may start: its timer fired, or Join calls
\* vn.stabilize() on it directly.
MayStart(v) ==
  /\ spc[v] = 0
  /\ \/ ring[HostOf(v)] \in {"up", "joinpass"} /\ timer[v]
     \/ ring[HostOf(v)] = "joinpass" /\ v = VnodeId(HostOf(v), prog[HostOf(v)] + 1)

\* A check that takes every ping as answered.
PredecessorKept(v, f) == FALSE

\* The ping of v's predecessor fails: it answers false, returns an error or
\* times out.
PredecessorGone(v, f) == predecessor[v] # Nil /\ ~Ping(HostOf(v), predecessor[v], f)

\* Round, step 1: ping the predecessor; when the ping fails clear it and tell
\* the delegate.
CheckPredecessor(v, f) ==
  /\ MayStart(v)
  /\ spc' = [spc EXCEPT ![v] = 1]
  /\ timer' = [timer EXCEPT ![v] = FALSE]
  /\ predecessor' =
       [predecessor EXCEPT ![v] = IF PredecessorGone(v, f) THEN Nil ELSE @]
  /\ invokeDelegate(HostOf(v),
                    IF PredecessorGone(v, f)
                      THEN <<PredecessorLeavingEvent(v, predecessor[v])>>
                      ELSE <<>>)
  /\ UNCHANGED <<procVars, successors, finger, lastFinger, Delegate, drun>>

\* Round, step 1 as it runs beside the inbound handlers, first half: the
\* ping of the predecessor; the round is at 4 when the ping has failed and
\* the predecessor is about to be cleared.
CheckPing(v, f) ==
  /\ MayStart(v)
  /\ spc' = [spc EXCEPT ![v] = IF PredecessorGone(v, f) THEN 4 ELSE 1]
  /\ timer' = [timer EXCEPT ![v] = FALSE]
  /\ UNCHANGED <<procVars, successors, predecessor, finger, lastFinger, evVars>>

\* Round, step 1, second half: clear the predecessor and tell the delegate.
CheckClear(v) ==
  /\ spc[v] = 4
  /\ spc' = [spc EXCEPT ![v] = 1]
  /\ predecessor' = [predecessor EXCEPT ![v] = Nil]
  /\ invokeDelegate(HostOf(v), <<PredecessorLeavingEvent(v, predecessor[v])>>)
  /\ UNCHANGED <<procVars, successors, finger, lastFinger, timer, Delegate, drun>>

\* Drop an unreachable successors[0] and promote the next candidate, while
\* there is one.
RECURSIVE DropDead(_, _, _)
DropDead(P, list, f) ==
  IF Len(list) > 1 /\ ~Ping(P, Head(list), f)
    THEN DropDead(P, Tail(list), FALSE)
    ELSE list

\* Round, step 2: the successor list after the check of successors[0] and of
\* its predecessor.
FixedSuccessors(v, f) ==
  LET P == HostOf(v)
      live == DropDead(P, Known(successors[v]), f)
  IN IF live = <<>> \/ ~CallOk(P, Head(live), FALSE) THEN Pad(live)
     ELSE LET x == GetPredecessorServe(Head(live))
          IN IF x \notin {Nil, Zero} /\ between(v, x, Head(live))
                  /\ Ping(P, x, FALSE)
               THEN Pad(Take(<<x>> \o live, NumSuccessors))
               ELSE Pad(live)

FixSuccessors(v, f) ==
  /\ spc[v] = 1
  /\ spc' = [spc EXCEPT ![v] = 2]
  /\ successors' = [successors EXCEPT ![v] = FixedSuccessors(v, f)]
  /\ UNCHANGED <<procVars, predecessor, finger, lastFinger, timer, evVars>>

\* A Notify that takes every caller as predecessor.
NotifyAcceptsAll(s, v) == TRUE

\* localVnode.Notify on vnode s, called by vnode v: s takes v as predecessor.
NotifyAccepts(s, v) == predecessor[s] = Nil \/ between(predecessor[s], v, s)

\* localVnode.Notify on vnode s, called by vnode v: the predecessor s keeps.
NotifiedPredecessor(s, v) == IF NotifyAccepts(s, v) THEN v ELSE predecessor[s]

\* localVnode.Notify on vnode s, called by vnode v: the events s submits.
NotifyEvents(s, v) ==
  IF NotifyAccepts(s, v) THEN <<NewPredecessorEvent(s, v, predecessor[s])>>
  ELSE <<>>

\* NotifyServe on vnode s: the successor list of s, trimmed, is the reply.
NotifyServe(s, v) == trimSlice(successors[s])

\* The successor list of a vnode of P after merging the reply of its
\* successors[0]: the reply goes in shifted by one position, duplicates and
\* unreachable entries go out, NumSuccessors entries stay.
Overlay(cur, got) ==
  <<cur[1]>> \o got \o SubSeq(cur, Min(Len(got) + 2, Len(cur) + 1), Len(cur))

Alive(P, s) ==
  Known([i \in 1..Len(s) |-> IF Ping(P, s[i], FALSE) THEN s[i] ELSE Nil])

MergeSuccessors(P, cur, got) ==
  CHOOSE merged \in
    {Pad(Take(alive, NumSuccessors)) :
       alive \in {Alive(P, uniq) :
         uniq \in {Dedupe(known) :
           known \in {Known(Overlay(c, g)) : c \in {cur}, g \in {got}}}}} : TRUE

\* Round, step 3: Notify(successors[0], self) and the merge of its reply.
NotifySuccessor(v, f) ==
  /\ spc[v] = 2
  /\ spc' = [spc EXCEPT ![v] = 3]
  /\ LET s == successors[v][1]
     IN IF s # Nil /\ CallOk(HostOf(v), s, f)
          THEN /\ predecessor' = [predecessor EXCEPT ![s] = NotifiedPredecessor(s, v)]
               /\ invokeDelegate(HostOf(s), NotifyEvents(s, v))
               /\ successors' =
                    [successors EXCEPT
                       ![v] = MergeSuccessors(HostOf(v), @, NotifyServe(s, v))]
          ELSE UNCHANGED <<predecessor, successors, dq>>
  /\ UNCHANGED <<procVars, finger, lastFinger, timer, Delegate, drun>>

\* Round, step 4: resolve one finger; the round ends and schedules the next.
FixFinger(v, f) ==
  /\ spc[v] = 3
  /\ spc' = [spc EXCEPT ![v] = 0]
  /\ LET r == FindSuccessors(v, 1, (v + 2 ^ lastFinger[v]) % RingSize, MaxHops)
     IN finger' =
          [finger EXCEPT
             ![v][lastFinger[v] + 1] =
               IF f \/ r.err \/ Len(r.list) = 0 THEN @ ELSE r.list[1]]
  /\ lastFinger' = [lastFinger EXCEPT ![v] = (@ + 1) % HashBits]
  /\ timer' = [timer EXCEPT ![v] = ring[HostOf(v)] \in {"up", "joinpass"}]
  /\ LET P == HostOf(v)
     IN IF ring[P] = "joinpass" /\ v = VnodeId(P, prog[P] + 1)
          THEN IF prog[P] + 1 = NumVnodes(P)
                 THEN /\ ring' = [ring EXCEPT ![P] = "up"]
                      /\ prog' = [prog EXCEPT ![P] = 0]
                 ELSE /\ prog' = [prog EXCEPT ![P] = @ + 1]
                      /\ UNCHANGED ring
          ELSE UNCHANGED <<ring, prog>>
  /\ UNCHANGED <<tup, local, delegate, leaveErr, lfail, successors, predecessor,
                 evVars>>

\* localVnode.ClearPredecessor(p) on vnode v: the predecessor v keeps.
localClearPredecessor(v, p) == IF predecessor[v] = p THEN Nil ELSE predecessor[v]

\* localVnode.SkipSuccessor(s) on vnode v: the successor list v keeps.
localSkipSuccessor(v, s) == Pad(Remove(successors[v], s))

\* ClearPredecessorServe: obj.ClearPredecessor(in.Self) on the target.
ClearPredecessorServe(target, self) == localClearPredecessor(target, self)

\* A SkipSuccessorServe that hands the handler in.Target instead of in.Self.
SkipSuccessorServeTarget(target, self) == localSkipSuccessor(target, target)

\* SkipSuccessorServe: obj.SkipSuccessor(in.Self) on the target.
SkipSuccessorServe(target, self) == localSkipSuccessor(target, self)

\* mergeErrors: both errors, in order.
mergeErrors(err1, err2) == err1 \o err2

\* A Leave that keeps only the error of the vnode it handled last.
LeaveKeepLast(err, e) == e

\* Ring.Leave's loop body: err = mergeErrors(err, vn.leave()).
LeaveMerge(err, e) == mergeErrors(err, e)

\* stopVnodes, called by Leave (how = "stopL") and Shutdown (how = "stopS").
StopVnodes(P, how) ==
  /\ ring[P] = "up"
  /\ ring' = [ring EXCEPT ![P] = how]
  /\ prog' = [prog EXCEPT ![P] = 0]
  /\ timer' = [v \in Vnodes |-> IF v \in VnodesOf(P) THEN FALSE ELSE timer[v]]
  /\ UNCHANGED <<tup, local, delegate, leaveErr, lfail, successors, predecessor,
                 finger, lastFinger, spc, evVars>>

\* A stopVnodes that waits for no vnode.
StoppedNow(P) == TRUE

\* stopVnodes returns once no round of a local vnode is in flight.
Stopped(P) == \A v \in VnodesOf(P) : spc[v] = 0

\* Ring.Leave's loop body for the next vnode, once every round has stopped:
\* vn.leave() tells the delegate, then calls ClearPredecessor on successors[0]
\* and SkipSuccessor on the predecessor.
LeaveVnode(P, f1, f2) ==
  /\ ring[P] = "stopL"
  /\ Stopped(P)
  /\ prog[P] < NumVnodes(P)
  /\ LET v == VnodeId(P, prog[P] + 1)
         succ == successors[v][1]
         pred == predecessor[v]
         ok1 == succ # Nil /\ CallOk(P, succ, f1)
         ok2 == pred # Nil /\ CallOk(P, pred, f2)
         failed == (succ # Nil /\ ~ok1) \/ (pred # Nil /\ ~ok2)
     IN /\ invokeDelegate(P, <<LeavingEvent(v, pred, succ)>>)
        /\ predecessor' =
             IF ok1
               THEN [predecessor EXCEPT ![succ] = ClearPredecessorServe(succ, v)]
               ELSE predecessor
        /\ successors' =
             IF ok2
               THEN [successors EXCEPT ![pred] = SkipSuccessorServe(pred, v)]
               ELSE successors
        /\ leaveErr' =
             [leaveErr EXCEPT ![P] = LeaveMerge(@, IF failed THEN <<v>> ELSE <<>>)]
        /\ lfail' = [lfail EXCEPT ![P] = IF failed THEN @ \cup {v} ELSE @]
  /\ prog' = [prog EXCEPT ![P] = @ + 1]
  /\ UNCHANGED <<ring, delegate, tup, local, finger, lastFinger, timer, spc,
                 Delegate, drun>>

\* A stopDelegate that does not wait for the dispatcher.
stopDelegateNow(P) == delegate' = [delegate EXCEPT ![P] = "stopped"]

\* stopDelegate: wait until the dispatcher has delivered every event, then
\* stop it.
stopDelegate(P) ==
  /\ Drained(P)
  /\ delegate' = [delegate EXCEPT ![P] = "stopped"]

\* Ring.Leave after its loop: stopDelegate, then Leave returns.
LeaveDone(P) ==
  /\ ring[P] = "stopL"
  /\ prog[P] = NumVnodes(P)
  /\ stopDelegate(P)
  /\ ring' = [ring EXCEPT ![P] = "left"]
  /\ UNCHANGED <<prog, tup, local, leaveErr, lfail, successors, predecessor, finger,
                 lastFinger, timer, spc, evVars>>

\* Ring.Shutdown, once every round has stopped: stopDelegate.
ShutdownDone(P) ==
  /\ ring[P] = "stopS"
  /\ Stopped(P)
  /\ stopDelegate(P)
  /\ ring' = [ring EXCEPT ![P] = "down"]
  /\ UNCHANGED <<prog, tup, local, leaveErr, lfail, successors, predecessor, finger,
                 lastFinger, timer, spc, evVars>>

\* A dispatcher that starts the next callback while one is still executing.
DelegateTakeAsync(P) ==
  /\ delegate[P] = "running"
  /\ dq[P] # <<>>
  /\ drun' = [drun EXCEPT ![P] = @ \cup {Head(dq[P])}]
  /\ dq' = [dq EXCEPT ![P] = Tail(@)]
  /\ UNCHANGED <<procVars, successors, predecessor, finger, lastFinger, timer, spc,
                 Delegate>>

\* delegateHandler: the dispatcher, back from the previous callback, receives
\* the next event and calls the delegate with it.
DelegateTake(P) ==
  /\ delegate[P] = "running"
  /\ drun[P] = {}
  /\ dq[P] # <<>>
  /\ drun' = [drun EXCEPT ![P] = @ \cup {Head(dq[P])}]
  /\ dq' = [dq EXCEPT ![P] = Tail(@)]
  /\ UNCHANGED <<procVars, successors, predecessor, finger, lastFinger, timer, spc,
                 Delegate>>

\* delegateHandler: the callback e returns.
DelegateDone(P, e) ==
  /\ e \in drun[P]
  /\ drun' = [drun EXCEPT ![P] = @ \ {e}]
  /\ UNCHANGED <<procVars, successors, predecessor, finger, lastFinger, timer, spc,
                 Delegate, dq>>

\* GRPCTransport.Shutdown of a process whose ring has left or shut down.
TransportShutdown(P) ==
  /\ ring[P] \in {"left", "down"}
  /\ tup[P]
  /\ tup' = [tup EXCEPT ![P] = FALSE]
  /\ UNCHANGED <<ring, prog, local, delegate, leaveErr, lfail, successors,
                 predecessor, finger, lastFinger, timer, spc, evVars>>

\* A remote call times out for no reason at most MaxFaults times; the step
\* is one of the ring's own, not a request from a client outside the ring.
Fault(n) ==
  /\ faults + n <= MaxFaults
  /\ faults' = faults + n
  /\ UNCHANGED <<poolVars, served>>

Flag(f) == IF f THEN 1 ELSE 0

\* Ring formation: A creates the ring, B joins it through A.
FormStep(F) ==
  \/ Create("A") /\ Fault(0)
  \/ \E f \in F : JoinList("B", f) /\ Fault(Flag(f))
  \/ \E f \in F : JoinSeed("B", f) /\ Fault(Flag(f))

\* The steps of the stabilization rounds; f says that the step's first remote
\* call times out.
StabStep(v, F) ==
  \/ \E f \in F : CheckPredecessor(v, f) /\ Fault(Flag(f))
  \/ \E f \in F : FixSuccessors(v, f) /\ Fault(Flag(f))
  \/ \E f \in F : NotifySuccessor(v, f) /\ Fault(Flag(f))
  \/ \E f \in F : FixFinger(v, f) /\ Fault(Flag(f))

LeaveStep(P, F) ==
  \/ StopVnodes(P, "stopL") /\ Fault(0)
  \/ \E f1 \in F, f2 \in F : LeaveVnode(P, f1, f2) /\ Fault(Flag(f1) + Flag(f2))
  \/ LeaveDone(P) /\ Fault(0)

ShutdownStep(P) ==
  \/ StopVnodes(P, "stopS") /\ Fault(0)
  \/ ShutdownDone(P) /\ Fault(0)
  \/ TransportShutdown(P) /\ Fault(0)

RingStep ==
  \/ FormStep(BOOLEAN)
  \/ \E v \in Vnodes : StabStep(v, BOOLEAN)
  \/ LeaveStep("A", BOOLEAN)
  \/ ShutdownStep("A")

NextRing == RingStep

SpecRing == Init /\ [][NextRing]_vars

\* The ring where A is configured with a delegate and B is not: the ring's
\* steps and the steps of A's dispatcher.
InitEvents == InitPool /\ InitRingWith([P \in Procs |-> P = "A"])

DispatchStep(P) ==
  \/ DelegateTake(P) /\ Fault(0)
  \/ \E e \in drun[P] : DelegateDone(P, e) /\ Fault(0)

\* Only a ping that a vnode of A sends its predecessor and the calls of a
\* leaving vnode time out for no reason here; A leaves once B has joined.
EventStep ==
  \/ FormStep({FALSE})
  \/ \E v \in Vnodes : StabStep(v, {FALSE})
  \/ \E v \in VnodesOf("A") : CheckPredecessor(v, TRUE) /\ Fault(1)
  \/ LeaveStep("A", BOOLEAN) /\ ring["B"] = "up"
  \/ TransportShutdown("A") /\ Fault(0)
  \/ DispatchStep("A")

NextEvents == EventStep

SpecEvents == InitEvents /\ [][NextEvents]_vars

\* The ring with the first step of a round in its two halves, between which
\* the inbound handlers of the vnode run: localVnode holds no lock. Only the
\* ping of a predecessor times out for no reason here.
RaceStep ==
  \/ FormStep({FALSE})
  \/ \E v \in Vnodes, f \in BOOLEAN : CheckPing(v, f) /\ Fault(Flag(f))
  \/ \E v \in Vnodes : CheckClear(v) /\ Fault(0)
  \/ \E v \in Vnodes : FixSuccessors(v, FALSE) /\ Fault(0)
  \/ \E v \in Vnodes : NotifySuccessor(v, FALSE) /\ Fault(0)
  \/ \E v \in Vnodes : FixFinger(v, FALSE) /\ Fault(0)
  \/ LeaveStep("A", {FALSE}) /\ ring["B"] = "up"
  \/ TransportShutdown("A") /\ Fault(0)

NextRace == RaceStep

SpecRace == Init /\ [][NextRace]_vars

\* The ring with no spurious timeout, where A leaves only once B has joined;
\* every stabilization round that may run does run.
CalmStep ==
  \/ FormStep({FALSE})
  \/ \E v \in Vnodes : StabStep(v, {FALSE})
  \/ LeaveStep("A", {FALSE}) /\ ring["B"] = "up"
  \/ TransportShutdown("A") /\ Fault(0)

NextCalm == CalmStep

Fairness ==
  \A v \in Vnodes : WF_vars(StabStep(v, {FALSE}))

SpecCalm == Init /\ [][NextCalm]_vars /\ Fairness

(***************************************************************************)
(* Lookup.                                                                 *)
(***************************************************************************)
\* Ring.nearestVnode: the local vnode of P nearest to the key.
nearestVnode(P, key) == nearestVnodeToKey(VnodesOf(P), key)

\* A LookupHash that returns the list as FindSuccessors padded it.
TrimNone(list) == list

\* LookupHash's loop that trims the nil successors from the end.
RECURSIVE TrimNil(_)
TrimNil(list) ==
  IF list[Len(list)] = Nil THEN TrimNil(SubSeq(list, 1, Len(list) - 1))
  ELSE list

\* The same loop reads list[len(list)-1] of a list with no entry left.
TrimFaults(list) == \A i \in 1..Len(list) : list[i] = Nil

NoLookup ==
  [P |-> "-", n |-> 0, hash |-> 0, err |-> FALSE, pred |-> Nil, succs |-> <<>>,
   calls |-> 0, panic |-> FALSE]

\* A LookupHash that accepts one successor more than NumSuccessors.
TooManyLoose(n) == n > NumSuccessors + 1

\* LookupHash's check that n is sane.
TooMany(n) == n > NumSuccessors

\* Ring.LookupHash(n, hash) on the ring of P: what it returns, how many
\* FindSuccessors calls it made, and whether it faulted.
LookupHash(P, n, hash) ==
  LET base == [NoLookup EXCEPT !.P = P, !.n = n, !.hash = hash]
  IN IF TooMany(n) THEN [base EXCEPT !.err = TRUE]
     ELSE LET nearest == nearestVnode(P, hash)
              r == FindSuccessors(nearest, n, hash, MaxHops)
              called == [base EXCEPT !.calls = 1]
          IN IF r.err THEN [called EXCEPT !.err = TRUE, !.pred = nearest]
             ELSE IF TrimFaults(r.list) THEN [called EXCEPT !.panic = TRUE]
             ELSE [called EXCEPT !.pred = nearest, !.succs = TrimNil(r.list)]

(***************************************************************************)
(* Claims about the transport.                                             *)
(***************************************************************************)

\* C8: whenever the remote handler of an outbound call takes longer than the
\* per-call timeout (it is still running after more than the timeout, or it
\* returned after more than the timeout), the caller has returned with
\* errTimedOut, and keeps that result whatever the handler returns later.
C8_TimeoutWins ==
  \A c \in Calls :
    (late[c] \/ (gpc[c] = "rpc" /\ elapsed[c] > RpcTimeout))
      => (pc[c] = "returned" /\ result[c] = "errTimedOut")

\* A handler returned a response after the timeout, its goroutine has sent it
\* and exited, and the caller holds errTimedOut.
C8_Witness ==
  \E c \in Calls :
    late[c] /\ reply[c] = "ok" /\ gpc[c] = "exit" /\ result[c] = "errTimedOut"

PooledCount(o) == Occurrences(pool["A"], o) + Occurrences(pool["B"], o)
Holders(o) == {c \in Calls : out[c] = o}

\* C9: every connection getConn handed out is held by exactly one in-flight
\* call until that call's goroutine gives it back, and is then either pooled
\* once (under its own host) or closed once: an open connection is never lost,
\* never held twice, never pooled while held, and never closed twice.
C9_GivenBackOnce ==
  /\ \A o \in Conns :
       /\ connState[o] = "undialed" =>
            Holders(o) = {} /\ PooledCount(o) = 0 /\ closes[o] = 0
       /\ connState[o] = "open" =>
            /\ Cardinality(Holders(o)) + PooledCount(o) = 1
            /\ closes[o] = 0
            /\ PooledCount(o) = Occurrences(pool[connHost[o]], o)
       /\ connState[o] = "closed" =>
            Holders(o) = {} /\ PooledCount(o) = 0 /\ closes[o] = 1
  /\ \A c \in Calls :
       /\ out[c] # NoConn <=> gpc[c] \in {"rpc", "returnConn"}
       /\ out[c] # NoConn => connHost[out[c]] = callHost[c]

\* One call ended in the timeout path and another in the error path, both
\* goroutines have finished, and both connections are back in the pool.
C9_Witness ==
  /\ \E c \in Calls : result[c] = "errTimedOut" /\ gpc[c] = "exit"
  /\ \E c \in Calls : result[c] = "err" /\ gpc[c] = "exit"
  /\ \A o \in Conns : connState[o] = "open" /\ Pooled(o)

Dialed(h) == Cardinality({o \in Conns : connState[o] # "undialed" /\ connHost[o] = h})
Closed(h) == Cardinality({o \in Conns : connState[o] = "closed" /\ connHost[o] = h})
Open(h) == Cardinality({o \in Conns : connState[o] = "open" /\ connHost[o] = h})

\* C10 as stated: when the callers of the calls to a host never overlapped
\* (each call returned to its caller before the next started) and no
\* connection was closed, one connection was dialed and the pool holds at most
\* one, also when some of the calls returned errTimedOut.
C10_Original ==
  (maxCallers <= 1 /\ Closed(Observed) = 0)
    => (Dialed(Observed) <= 1 /\ Len(pool[Observed]) <= 1)

\* C10 as amended: the open connections to a host (pooled or checked out)
\* never exceed the number of underlying calls to that host that were in
\* flight at the same time, a call staying in flight until its goroutine has
\* given the connection back; so calls each of which gave its connection back
\* before the next started dial one connection, and dial again only after a
\* connection was closed.
C10_PoolBounded ==
  /\ Open(Observed) <= maxOut
  /\ Len(pool[Observed]) <= maxOut
  /\ Dialed(Observed) <= maxOut + Closed(Observed)
  /\ (maxOut <= 1 /\ Closed(Observed) = 0) => Dialed(Observed) <= 1

\* A second call to the host is in flight on the one connection dialed so
\* far, after a first call that ended in the timeout path gave it back.
C10_Witness ==
  /\ maxOut = 1
  /\ pc[1] = "returned" /\ result[1] = "errTimedOut" /\ callHost[1] = Observed
  /\ pc[2] = "select" /\ callHost[2] = Observed /\ out[2] # NoConn
  /\ Dialed(Observed) = 1

(***************************************************************************)
(* Claims about the ring.                                                  *)
(***************************************************************************)
BothUp == ring["A"] = "up" /\ ring["B"] = "up"

\* The vnode that follows v in id order among all vnodes of A and B.
NextInOrder(v) ==
  CHOOSE w \in Vnodes \ {v} : \A u \in Vnodes \ {v} : dist(v, w) <= dist(v, u)

Converged ==
  \A v \in Vnodes :
    /\ successors[v][1] = NextInOrder(v)
    /\ predecessor[successors[v][1]] = v

\* C1: once B has joined A, and as long as neither leaves and no call fails,
\* the stabilization rounds eventually make the predecessor of every vnode's
\* successors[0] that vnode, and successors[0] the next vnode in id order, so
\* that the successors[0] links form one cycle through all vnodes of A and B.
C1_Converges == [](BothUp => <>(Converged \/ ~BothUp))

ALeft == ring["A"] = "left" /\ ~tup["A"] /\ ring["B"] = "up"

BAlone == \A v \in VnodesOf("B") : successors[v][1] \in VnodesOf("B")

BSettled ==
  \A v \in VnodesOf("B") :
    \E i \in 1..NumSuccessors : successors[v][i] \in VnodesOf("B")

\* C2 as stated: B joined A; once A.Leave() has returned and A's transport is
\* shut down, eventually every vnode of B has its successors[0] hosted on B.
C2_Original == [](ALeft => <>BAlone)

\* C2: if, while both rings were up, every vnode of B had come to hold a vnode
\* of B in its successor list, then once A.Leave() has returned and A's
\* transport is shut down, eventually every vnode of B has its successors[0]
\* hosted on B.
C2_SettledThenAlone == []((BothUp /\ BSettled) => [](ALeft => <>BAlone))

C2_Witness ==
  /\ ALeft
  /\ BAlone
  /\ \A v \in VnodesOf("B") : spc[v] = 0 /\ predecessor[v] \in VnodesOf("B")

NoPeerJoined == ring["B"] \in {"none", "failed", "seeding"}

\* C3: in a ring that Create produced and no peer joined, every vnode's
\* successors[0] is the vnode itself, right after Create and after any number
\* of stabilization rounds.
C3_CreateAlone ==
  (ring["A"] \in {"up", "stopS", "down"} /\ NoPeerJoined) =>
    \A v \in VnodesOf("A") : successors[v][1] = v

C3_Witness ==
  /\ ring["A"] = "up"
  /\ NoPeerJoined
  /\ \A v \in VnodesOf("A") :
       /\ successors[v][1] = v
       /\ predecessor[v] = v
       /\ \A i \in 1..HashBits : finger[v][i] = v

\* The caller holds the Ring: Create or Join has returned it.
RingExists(P) == ring[P] \in {"up", "stopL", "stopS", "left", "down"}

\* C4: whatever the state of the ring, a LookupHash with n <= NumSuccessors
\* that succeeds returns at most n vnodes, each farther clockwise from the
\* hash than the one before, hence no vnode twice.
C4_LookupOrdered ==
  \A P \in Procs, n \in 0..NumSuccessors, h \in Keys :
    RingExists(P) =>
      LET r == LookupHash(P, n, h)
      IN (~r.err /\ ~r.panic) =>
           /\ Len(r.succs) <= n
           /\ \A i \in 1..Len(r.succs) : r.succs[i] \in Vnodes
           /\ \A i, j \in 1..Len(r.succs) :
                i < j => dist(h, r.succs[i]) < dist(h, r.succs[j])

C4_Witness ==
  /\ BothUp
  /\ \E h \in Keys :
       LET r == LookupHash("A", NumSuccessors, h)
       IN /\ ~r.err
          /\ Len(r.succs) = NumSuccessors
          /\ HostOf(r.succs[2]) = "B"
          /\ successors[r.pred][1] # r.succs[1]

\* Some vnode on some route cannot answer: it has no successor, or a
\* transport is shut down.
RouteBroken ==
  \/ \E v \in Vnodes : v \in local[HostOf(v)] /\ successors[v][1] = Nil
  \/ \E P \in Procs : ~tup[P]

\* C5: LookupHash with n > NumSuccessors returns an error, no predecessor and
\* no successors and calls FindSuccessors on no vnode; with n <= NumSuccessors
\* it returns an error only after its one FindSuccessors call on the nearest
\* local vnode found no route, and then no successors.
C5_LookupErrors ==
  \A P \in Procs, h \in Keys :
    RingExists(P) =>
      /\ LET r == LookupHash(P, NumSuccessors + 1, h)
         IN r.err /\ r.pred = Nil /\ r.succs = <<>> /\ r.calls = 0 /\ ~r.panic
      /\ \A n \in 0..NumSuccessors :
           LET r == LookupHash(P, n, h)
           IN r.err =>
                /\ r.calls = 1
                /\ r.pred = nearestVnode(P, h)
                /\ r.succs = <<>>
                /\ RouteBroken

C5_Witness ==
  /\ RingExists("A")
  /\ \E h \in Keys :
       /\ LookupHash("A", NumSuccessors + 1, h).err
       /\ LookupHash("A", NumSuccessors, h).err
       /\ LookupHash("A", NumSuccessors, h).calls = 1
  /\ \E h \in Keys : ~LookupHash("A", NumSuccessors, h).err

\* C6: a Join that failed has left nothing behind: no vnode of the ring is
\* registered with the transport, no stabilization round runs or is
\* scheduled, and the delegate dispatcher was not started.
C6_FailedJoinLeavesNothing ==
  \A P \in Procs :
    ring[P] = "failed" =>
      /\ local[P] = {}
      /\ \A v \in VnodesOf(P) : ~timer[v] /\ spc[v] = 0
      /\ delegate[P] = "off"

\* C7: when Leave returns it has run the leave of every local vnode, and its
\* error names exactly the vnodes whose leave failed: it is nil exactly when
\* none failed.
C7_LeaveMergesAll ==
  \A P \in Procs :
    ring[P] = "left" =>
      /\ prog[P] = NumVnodes(P)
      /\ SeqToSet(leaveErr[P]) = lfail[P]
      /\ (leaveErr[P] # <<>>) <=> (lfail[P] # {})

C7_Witness ==
  /\ ring["A"] = "left"
  /\ lfail["A"] = {VnodeId("A", 1)}
  /\ leaveErr["A"] = <<VnodeId("A", 1)>>
  /\ successors[VnodeId("A", NumVnodesA)][1] = Nil

(***************************************************************************)
(* More claims about the transport.                                        *)
(***************************************************************************)
Idle(o) == used[o] > ConnMaxIdle

\* C11: one sweep of reapOnce closes, once, and removes every pooled
\* connection that has been idle for longer than max-idle, keeps every other
\* pooled connection in its host's list exactly once and open, and leaves
\* the connections that are not pooled (checked out) as they were.
C11_ReapExact ==
  [][ReapOnce =>
       \A o \in Conns :
         /\ (Pooled(o) /\ Idle(o)) =>
              /\ PooledCount(o)' = 0
              /\ connState'[o] = "closed"
              /\ closes'[o] = closes[o] + 1
         /\ (Pooled(o) /\ ~Idle(o)) =>
              /\ PooledCount(o)' = 1
              /\ Occurrences(pool'[connHost[o]], o) = 1
              /\ connState'[o] = connState[o]
              /\ closes'[o] = closes[o]
         /\ ~Pooled(o) =>
              /\ PooledCount(o)' = 0
              /\ connState'[o] = connState[o]
              /\ closes'[o] = closes[o]
              /\ used'[o] = used[o]]_vars

\* A sweep has closed one connection of a host and kept another one of the
\* same host; no Shutdown has closed anything.
C11_Witness ==
  /\ shutdown = 0
  /\ reaper = "check"
  /\ \E o1, o2 \in Conns :
       /\ connState[o1] = "closed" /\ closes[o1] = 1 /\ ~Pooled(o1)
       /\ connState[o2] = "open" /\ Pooled(o2) /\ ~Idle(o2)
       /\ connHost[o1] = connHost[o2]

\* Shutdown has finished and no call is in flight: every caller has returned
\* and every goroutine a call spawned has ended.
PoolQuiet ==
  /\ sdpc = "done"
  /\ \A c \in Calls : pc[c] \in {"idle", "returned"} /\ gpc[c] \in {"none", "exit"}

\* In this step getConn hands call c a connection.
HandsOut(c) == out'[c] # NoConn /\ out'[c] # out[c]

\* In this step call c gives its connection back.
GivesBack(c) == gpc[c] = "returnConn" /\ gpc'[c] # "returnConn"

\* A connection given back once the flag is set is closed and not pooled.
ClosedOnReturn ==
  \A c \in Calls :
    (shutdown = 1 /\ GivesBack(c)) =>
      /\ connState'[out[c]] = "closed"
      /\ PooledCount(out[c])' = 0

\* Nothing is open once Shutdown is over and the calls have ended.
NoneOpenAtRest == PoolQuiet' => \A o \in Conns : connState'[o] # "open"

\* C16 as stated: once the shutdown flag is set no getConn hands out a
\* connection, a connection given back is closed instead of pooled, and when
\* Shutdown has finished and no call is in flight no connection is open.
C16_Original ==
  [][/\ shutdown = 1 => \A c \in Calls : ~HandsOut(c)
     /\ ClosedOnReturn
     /\ NoneOpenAtRest]_vars

\* C16: a getConn that reads the shutdown flag once it is set fails with the
\* shutdown error and hands out nothing; the only connection handed out with
\* the flag set is one freshly dialed by a getConn that had read the flag
\* before; a connection given back with the flag set is closed instead of
\* pooled; when Shutdown has finished and no call is in flight no connection
\* is open.
C16_ShutdownCloses ==
  [][/\ \A c \in Calls :
          (shutdown = 1 /\ pc[c] = "getConn" /\ pc'[c] # "getConn") =>
            pc'[c] = "returned" /\ result'[c] = "errShutdown" /\ out'[c] = NoConn
     /\ \A c \in Calls :
          (shutdown = 1 /\ HandsOut(c)) =>
            pc[c] = "dial" /\ connState[out'[c]] = "undialed"
     /\ ClosedOnReturn
     /\ NoneOpenAtRest]_vars

\* Shutdown is over and the calls have ended: one call was refused with the
\* shutdown error, a connection was closed, none is open.
C16_Witness ==
  /\ PoolQuiet
  /\ \E c \in Calls : result[c] = "errShutdown"
  /\ \E o \in Conns : connState[o] = "closed" /\ closes[o] = 1
  /\ \A o \in Conns : connState[o] # "open"

(***************************************************************************)
(* More claims about the ring.                                             *)
(***************************************************************************)
\* The round of v pings its predecessor in this step.
PingsPredecessor(v) == spc[v] = 0 /\ spc'[v] = 1 /\ predecessor[v] # Nil

\* The ping of v's predecessor reaches the process that hosts it, where it
\* is registered, and is answered in time.
PingAnswered(v) ==
  /\ get(HostOf(predecessor[v]), predecessor[v])
  /\ tup[HostOf(v)] /\ tup[HostOf(predecessor[v])]
  /\ faults' = faults

\* C12: a stabilization round's Ping of a predecessor that is registered on
\* the process that receives it is answered (true, nil), in every round: the
\* predecessor is kept, and the pinged vnode's successors, finger table and
\* predecessor and both registries are as before.
C12_PingPure ==
  [][\A v \in Vnodes :
       (PingsPredecessor(v) /\ PingAnswered(v)) =>
         /\ predecessor'[v] = predecessor[v]
         /\ successors'[predecessor[v]] = successors[predecessor[v]]
         /\ finger'[predecessor[v]] = finger[predecessor[v]]
         /\ predecessor'[predecessor[v]] = predecessor[predecessor[v]]
         /\ local' = local]_vars

\* A vnode of B is past the ping of its predecessor on A in its third round
\* or later and still has it.
C12_Witness ==
  \E v \in VnodesOf("B") :
    /\ spc[v] = 1
    /\ lastFinger[v] = 0
    /\ \A i \in 1..HashBits : finger[v][i] # Nil
    /\ predecessor[v] \in VnodesOf("A")
    /\ successors[predecessor[v]][1] = v
    /\ ring["A"] = "up"

\* The clockwise distance from v to an entry of its successor list; v itself
\* is a full circle away.
SuccDist(v, x) == IF x = v THEN RingSize ELSE dist(v, x)

\* The populated entries of v's list are at strictly increasing distance.
NearestFirst(v) ==
  LET s == Known(successors[v])
  IN \A i \in 1..Len(s), j \in 1..Len(s) :
       i < j => SuccDist(v, s[i]) < SuccDist(v, s[j])

\* No vnode id occurs twice in v's list.
NoDuplicate(v) ==
  LET s == Known(successors[v])
  IN \A i \in 1..Len(s), j \in 1..Len(s) : i # j => s[i] # s[j]

Stopping(P) == ring[P] \in {"stopL", "stopS", "left", "down"}

\* In this step Leave issues the leave calls of a vnode, or Leave or Shutdown
\* stops the delegate.
TearsDown(P) ==
  \/ ring[P] = "stopL" /\ prog'[P] # prog[P]
  \/ delegate[P] # "stopped" /\ delegate'[P] = "stopped"

\* C14: once Leave or Shutdown has called stopVnodes no local vnode starts a
\* round, then or after the return; a round in flight goes on step by step to
\* its end; the leave calls and the stop of the delegate happen only when no
\* round of a local vnode is in flight.
C14_StopsRoundsFirst ==
  [][\A P \in Procs :
       /\ \A v \in VnodesOf(P) :
            (Stopping(P) /\ spc'[v] # spc[v]) =>
              spc[v] # 0 /\ spc'[v] = (spc[v] + 1) % 4
       /\ TearsDown(P) => \A v \in VnodesOf(P) : spc[v] = 0 /\ spc'[v] = 0]_vars

\* Leave has called stopVnodes while a round of one vnode was in flight; that
\* round has reached its last step and the leave calls have not begun.
C14_Witness ==
  /\ ring["A"] = "stopL"
  /\ prog["A"] = 0
  /\ \E v \in VnodesOf("A") : spc[v] = 3 /\ lastFinger[v] > 0

(***************************************************************************)
(* Claims about the delegate and the events.                               *)
(***************************************************************************)
\* The events of P's dispatcher that are waiting or executing.
Pending(P) == SeqToSet(dq[P]) \cup drun[P]

\* In this step a callback of P starts.
CallbackStarts(P) == \E e \in drun'[P] : e \notin drun[P]

\* C13: at most one delegate callback of a Ring executes at any time; the
\* callback that starts is for the event submitted first among those
\* waiting, and events only join the queue at its end, whichever vnode task,
\* inbound handler or Leave submits them.
C13_OneAtATime ==
  [][\A P \in Procs :
       /\ Cardinality(drun'[P]) <= 1
       /\ CallbackStarts(P) =>
            /\ dq[P] # <<>>
            /\ drun'[P] = drun[P] \cup {Head(dq[P])}
            /\ dq'[P] = Tail(dq[P])
       /\ ~CallbackStarts(P) =>
            /\ Len(dq'[P]) >= Len(dq[P])
            /\ SubSeq(dq'[P], 1, Len(dq[P])) = dq[P]]_vars

\* A callback of A executes while two events wait, one submitted by an
\* inbound Notify handler and one by a vnode's round or by Leave.
C13_Witness ==
  /\ drun["A"] # {}
  /\ Len(dq["A"]) = 2
  /\ dq["A"][1].kind # dq["A"][2].kind
  /\ \E i \in 1..2 : dq["A"][i].kind = "NewPredecessor"

\* In this step Leave of P handles its next vnode.
LeavesNext(P) == ring[P] = "stopL" /\ prog'[P] = prog[P] + 1

\* C15: each vnode that Leave handles has its Leaving event submitted in the
\* step that issues its ClearPredecessor and SkipSuccessor calls, whether or
\* not these fail; when Leave has returned every event has been delivered, no
\* callback executes and the dispatcher is stopped.
C15_LeavingDelivered ==
  [][\A P \in Procs :
       Delegate[P] =>
         /\ LeavesNext(P) =>
              LET v == VnodeId(P, prog[P] + 1)
              IN dq'[P] =
                   Append(dq[P], LeavingEvent(v, predecessor[v], successors[v][1]))
         /\ ring'[P] = "left" =>
              dq'[P] = <<>> /\ drun'[P] = {} /\ delegate'[P] = "stopped"]_vars

\* The Leaving event of a vnode whose leave calls failed is being delivered
\* while Leave waits for the dispatcher.
C15_Witness ==
  /\ ring["A"] = "stopL"
  /\ prog["A"] = NumVnodes("A")
  /\ \E e \in drun["A"] : e.kind = "Leaving" /\ e.local \in lfail["A"]

\* In this step vnode v calls Notify on its successors[0] and the call
\* arrives.
Notifies(v) ==
  /\ spc[v] = 2 /\ spc'[v] = 3
  /\ successors[v][1] # Nil
  /\ faults' = faults
  /\ successors[v][1] \in local[HostOf(successors[v][1])]
  /\ HostOf(successors[v][1]) # HostOf(v) =>
       tup[HostOf(v)] /\ tup[HostOf(successors[v][1])]

\* x lies strictly between p and s, going clockwise from p; from a vnode
\* round to itself every other id lies between.
StrictlyBetween(p, x, s) ==
  \E k \in 1..(RingSize - 1) :
    /\ x = (p + k) % RingSize
    /\ \A j \in 1..k : (p + j) % RingSize # s

\* C18: Notify(v) handled by vnode s makes v the predecessor of s and submits
\* NewPredecessor(s, v, old predecessor) exactly when s has no predecessor
\* or v lies strictly between the predecessor of s and s; otherwise the
\* predecessor stays and nothing is submitted; either way the caller merges
\* the successor list of s, which is the reply.
C18_NotifyRule ==
  [][\A v \in Vnodes :
       Notifies(v) =>
         LET s == successors[v][1]
             P == HostOf(s)
             old == predecessor[s]
         IN /\ IF old = Nil \/ StrictlyBetween(old, v, s)
                 THEN /\ predecessor'[s] = v
                      /\ Listening(P) =>
                           dq'[P] = Append(dq[P], NewPredecessorEvent(s, v, old))
                 ELSE /\ predecessor'[s] = old
                      /\ dq'[P] = dq[P]
            /\ successors'[v] =
                 MergeSuccessors(HostOf(v), successors[v], trimSlice(successors[s]))]_vars

\* The delegate of A is told that a vnode of A replaced its predecessor by a
\* closer vnode of B.
C18_Witness ==
  \E e \in drun["A"] :
    /\ e.kind = "NewPredecessor"
    /\ e.b # Nil
    /\ HostOf(e.a) = "B"
    /\ predecessor[e.local] = e.a

\* In this step the round of v pings its predecessor and the ping fails: it
\* times out, or the predecessor cannot be reached or is not registered.
PingFails(v) ==
  /\ spc[v] = 0 /\ spc'[v] # 0
  /\ predecessor[v] # Nil
  /\ \/ predecessor[v] \notin local[HostOf(predecessor[v])]
     \/ /\ HostOf(predecessor[v]) # HostOf(v)
        /\ \/ faults' # faults
           \/ ~tup[HostOf(v)]
           \/ ~tup[HostOf(predecessor[v])]

\* C20: when the ping of the predecessor fails in a round, the round clears
\* the predecessor and submits PredecessorLeaving(v, predecessor), goes on
\* to its next step, and the Ring and the error Leave returns are as before.
C20_PingFailureClears ==
  [][\A v \in Vnodes :
       PingFails(v) =>
         /\ predecessor'[v] = Nil
         /\ Listening(HostOf(v)) =>
              dq'[HostOf(v)] =
                Append(dq[HostOf(v)], PredecessorLeavingEvent(v, predecessor[v]))
         /\ spc'[v] = 1
         /\ ring' = ring /\ leaveErr' = leaveErr /\ local' = local]_vars

\* The delegate of A is told that a vnode of A lost its predecessor; that
\* vnode has finished the round and its next round is scheduled.
C20_Witness ==
  \E e \in drun["A"] :
    /\ e.kind = "PredecessorLeaving"
    /\ spc[e.local] = 0
    /\ timer[e.local]
    /\ ring["A"] = "up"

(***************************************************************************)
(* Claims about the vnode's fields under concurrent access.                *)
(***************************************************************************)
\* The round of v is in the middle of updating its predecessor: the ping has
\* failed and the field is not cleared yet.
MidUpdate(v) == spc[v] = 4

\* In this step an inbound Notify handler runs on vnode v: it reads v's
\* predecessor and successors and may write the predecessor.
NotifyHandlerRuns(v) ==
  \E u \in Vnodes : u # v /\ Notifies(u) /\ successors[u][1] = v

\* In this step Leave's ClearPredecessor or SkipSuccessor handler runs on v.
LeaveHandlerRuns(v) ==
  \E P \in Procs :
    /\ LeavesNext(P)
    /\ v \notin VnodesOf(P)
    /\ \/ predecessor'[v] # predecessor[v]
       \/ successors'[v] # successors[v]

\* C17: no inbound handler of a vnode runs while a stabilization step of
\* that vnode is in the middle of updating its routing fields.
C17_Exclusive ==
  [][\A v \in Vnodes :
       MidUpdate(v) => ~NotifyHandlerRuns(v) /\ ~LeaveHandlerRuns(v)]_vars

(***************************************************************************)
(* Claims about the lookup's trimming and the server's dispatch.           *)
(***************************************************************************)
\* C22: for every n from 0 to NumSuccessors and every hash, a LookupHash on
\* a Ring its caller holds returns normally, with the trimmed list or with
\* the error of FindSuccessors: its trimming loop never reads outside the
\* list.
C22_TrimStaysInside ==
  \A P \in Procs, n \in 0..NumSuccessors, h \in Keys :
    RingExists(P) => ~LookupHash(P, n, h).panic

\* The server of process P takes the request op for the vnode target from a
\* client, which may be any program that speaks the protocol; self is the
\* request's other vnode (in.Self, or the key of FindSuccessors). Each
\* operation looks the target up with get and answers "target vnode not
\* found" when it is not there; else PingServe answers Ok from the lookup
\* and the others call the method of the object that get has returned.
Serve(P, op, target, self) ==
  /\ tup[P]
  /\ served.n < MaxRequests
  /\ served' =
       [n |-> served.n + 1, op |-> op, on |-> P, target |-> target,
        notFound |-> ~get(P, target),
        obj |-> IF get(P, target) THEN target ELSE Nil,
        called |-> IF get(P, target) /\ op # "Ping" THEN op ELSE "none"]
  /\ predecessor' =
       IF get(P, target) /\ op = "Notify"
         THEN [predecessor EXCEPT ![target] = NotifiedPredecessor(target, self)]
       ELSE IF get(P, target) /\ op = "ClearPredecessor"
         THEN [predecessor EXCEPT ![target] = ClearPredecessorServe(target, self)]
       ELSE predecessor
  /\ successors' =
       IF get(P, target) /\ op = "SkipSuccessor"
         THEN [successors EXCEPT ![target] = SkipSuccessorServe(target, self)]
         ELSE successors
  /\ invokeDelegate(P, IF get(P, target) /\ op = "Notify"
                         THEN NotifyEvents(target, self) ELSE <<>>)
  /\ UNCHANGED <<procVars, finger, lastFinger, timer, spc, faults, Delegate,
                 drun, poolVars>>

\* The ring while it forms, before the timer of a round has fired: Create,
\* Join and the rounds that Join runs itself, with no spurious timeout; and
\* the requests the servers take from clients outside the ring, for any vnode.
ServeStep ==
  \/ FormStep({FALSE})
  \/ \E v \in VnodesOf("B") : StabStep(v, {FALSE}) /\ ring["B"] = "joinpass"
  \/ \E P \in Procs, t \in Vnodes : Serve(P, "Ping", t, t)
  \/ \E P \in Procs, t \in Vnodes : Serve(P, "GetPredecessor", t, t)
  \/ \E P \in Procs, t \in Vnodes, x \in Vnodes : Serve(P, "Notify", t, x)
  \/ \E P \in Procs, t \in Vnodes, x \in Vnodes : Serve(P, "FindSuccessors", t, x)
  \/ \E P \in Procs, t \in Vnodes, x \in Vnodes : Serve(P, "ClearPredecessor", t, x)
  \/ \E P \in Procs, t \in Vnodes, x \in Vnodes : Serve(P, "SkipSuccessor", t, x)

NextServe == ServeStep

SpecServe == Init /\ [][NextServe]_vars

\* A server has just taken a request.
Served == served'.n # served.n

\* Every vnode but v keeps its state in the step.
OthersKept(v) ==
  \A w \in Vnodes \ {v} :
    /\ predecessor'[w] = predecessor[w]
    /\ successors'[w] = successors[w]
    /\ finger'[w] = finger[w]

\* C21: a request for a vnode that is not registered on the process that
\* takes it is answered "target vnode not found", calls no handler and
\* changes no vnode; a request for a registered vnode works on the object
\* registered under that id: the handler it calls is that object's (Ping
\* answers Ok from the lookup itself) and no other vnode changes.
C21_Dispatch ==
  [][Served =>
       IF served'.target \in local[served'.on]
         THEN /\ ~served'.notFound
              /\ served'.obj = served'.target
              /\ served'.called \in {served'.op, "none"}
              /\ served'.called = "none" => served'.op = "Ping"
              /\ OthersKept(served'.target)
         ELSE /\ served'.notFound
              /\ served'.obj = Nil
              /\ served'.called = "none"
              /\ UNCHANGED <<successors, predecessor, finger, lastFinger,
                             timer, spc, dq>>]_vars

\* A server has answered "target vnode not found" for a vnode that another
\* process hosts, after it has served a registered vnode of its own ring.
C21_Witness ==
  /\ served.notFound
  /\ served.op = "Notify"
  /\ served.on = "A"
  /\ served.target \in local["B"]
  /\ local["A"] # {}

============================================================================
